---- MODULE Spec2Model ----
(***************************************************************************)
(* Model of src/app.py: the answer-key parser, the parser of the hosted    *)
(* model's reply, the local mark heuristic, the grader and the analysis    *)
(* loop of the Streamlit script.                                           *)
(*                                                                         *)
(* A Python str that is scanned is a sequence of one-character strings; a  *)
(* Python str that is stored as a dict value is a TLA+ string (Str turns   *)
(* the first into the second).  A Python dict is a function whose domain   *)
(* is its key set.  A score is kept in hundredths (10.0 is 1000).          *)
(***************************************************************************)
EXTENDS Integers, Sequences, FiniteSets, TLC

VARIABLES
    pc,              \* position of the script / of the function under check
    clave_raw,       \* text of the answer-key field (app.py:243)
    tokens,          \* how clave_raw was typed: its tokens, when built from tokens
    clave,           \* parse_answer_key's result (app.py:244)
    text,            \* the text extracted from the document at hand
    gemini_out,      \* the hosted model's reply handed to parse_gemini_json_response
    student_answers, \* the student mapping of the document at hand
    total_q,         \* totalQuestions handed to grade_answers
    grade,           \* grade_answers' result: [nota, correctas, incorrectas]
    n_files,         \* how many documents the user uploaded
    uploaded,        \* the uploaded documents, after the cap
    idx,             \* loop index of the analysis loop
    resultados,      \* the run's local result list
    session          \* st.session_state: whether resultados is set, and its value

vars == <<pc, clave_raw, tokens, clave, text, gemini_out, student_answers, total_q,
          grade, n_files, uploaded, idx, resultados, session>>

-----------------------------------------------------------------------------
(* Characters and character classes of Python's re *)

DigitChars == <<"0", "1", "2", "3", "4", "5", "6", "7", "8", "9">>

UpperChars == <<"A", "B", "C", "D", "E", "F", "G", "H", "I", "J", "K", "L", "M",
                "N", "O", "P", "Q", "R", "S", "T", "U", "V", "W", "X", "Y", "Z">>

LowerChars == <<"a", "b", "c", "d", "e", "f", "g", "h", "i", "j", "k", "l", "m",
                "n", "o", "p", "q", "r", "s", "t", "u", "v", "w", "x", "y", "z">>

\* \d
IsDigit(c) == \E i \in DOMAIN DigitChars : DigitChars[i] = c

DigitVal(c) == (CHOOSE i \in DOMAIN DigitChars : DigitChars[i] = c) - 1

\* \s
IsSpace(c) == c \in {" ", "\t", "\n", "\r", "\f"}

\* [a-eA-EvVfF]
AnswerLetters == {"a", "b", "c", "d", "e", "A", "B", "C", "D", "E", "v", "V", "f", "F"}

\* [:\-]
Separators == {":", "-"}

\* str.lower() on one character
LowerChar(c) ==
    IF \E i \in DOMAIN UpperChars : UpperChars[i] = c
    THEN LowerChars[CHOOSE i \in DOMAIN UpperChars : UpperChars[i] = c]
    ELSE c

RECURSIVE Lower(_)
Lower(s) == IF s = <<>> THEN <<>> ELSE <<LowerChar(Head(s))>> \o Lower(Tail(s))

\* the Python str held by a sequence of characters
RECURSIVE Str(_)
Str(s) == IF s = <<>> THEN "" ELSE Head(s) \o Str(Tail(s))

\* int() of a string of decimal digits
RECURSIVE IntOfDigits(_)
IntOfDigits(ds) ==
    IF ds = <<>> THEN 0
    ELSE 10 * IntOfDigits(SubSeq(ds, 1, Len(ds) - 1)) + DigitVal(ds[Len(ds)])

-----------------------------------------------------------------------------
(* Python dicts *)

EmptyDict == <<>>

Put(d, k, v) == [x \in (DOMAIN d) \cup {k} |-> IF x = k THEN v ELSE d[x]]

-----------------------------------------------------------------------------
(* The regular expressions (\d{1,4})\s*[:\-]?\s*([a-eA-EvVfF]) of              *)
(* parse_answer_key and (\d{1,4})\s*[:\-]\s*([a-eA-EvVfF]) of the pair scan *)

\* the quantifier {1,4}
MaxDigits == 4

\* \s* is greedy: the first position from j on that holds no whitespace
RECURSIVE SkipSpace(_, _)
SkipSpace(s, j) ==
    IF j <= Len(s) /\ IsSpace(s[j]) THEN SkipSpace(s, j + 1) ELSE j

\* a scan that also takes a closing parenthesis for a separator
SepLetterAt_Paren(s, j, sepOptional) ==
    LET a == SkipSpace(s, j)
        hasSep == a <= Len(s) /\ s[a] \in Separators \cup {")"}
        b == IF hasSep THEN SkipSpace(s, a + 1) ELSE a
    IN  IF (hasSep \/ sepOptional) /\ b <= Len(s) /\ s[b] \in AnswerLetters
        THEN b ELSE 0

\* \s*[:\-]?\s*([a-eA-EvVfF]) tried at j (the separator is required when
\* sepOptional is FALSE): the position of the letter, or 0 when it fails.
\* Backtracking finds nothing the greedy path misses: a character that
\* \s* gives up is no separator and no letter.
SepLetterAt(s, j, sepOptional) ==
    LET a == SkipSpace(s, j)
        hasSep == a <= Len(s) /\ s[a] \in Separators
        b == IF hasSep THEN SkipSpace(s, a + 1) ELSE a
    IN  IF (hasSep \/ sepOptional) /\ b <= Len(s) /\ s[b] \in AnswerLetters
        THEN b ELSE 0

NoMatch == [ok |-> FALSE]

\* the whole expression tried at position i: \d{1,4} takes the most digits
\* with which the rest still matches
MatchAt(s, i, sepOptional) ==
    LET ks == {k \in 1..MaxDigits :
                  /\ i + k - 1 <= Len(s)
                  /\ \A d \in i..(i + k - 1) : IsDigit(s[d])
                  /\ SepLetterAt(s, i + k, sepOptional) # 0}
    IN  IF ks = {} THEN NoMatch
        ELSE LET k == CHOOSE x \in ks : \A y \in ks : y <= x
                 p == SepLetterAt(s, i + k, sepOptional)
             IN  [ok |-> TRUE, n |-> SubSeq(s, i, i + k - 1), c |-> s[p], end |-> p]

\* a scan that gives up at the first position where nothing matches
RECURSIVE FindAllFrom_StopAtFail(_, _, _)
FindAllFrom_StopAtFail(s, i, sepOptional) ==
    IF i > Len(s) THEN <<>>
    ELSE LET m == MatchAt(s, i, sepOptional)
         IN  IF m.ok
             THEN <<[n |-> m.n, c |-> m.c]>> \o FindAllFrom_StopAtFail(s, m.end + 1, sepOptional)
             ELSE <<>>

\* re.findall: the non-overlapping matches from position i on, left to right,
\* each as the pair of its two groups
RECURSIVE FindAllFrom(_, _, _)
FindAllFrom(s, i, sepOptional) ==
    IF i > Len(s) THEN <<>>
    ELSE LET m == MatchAt(s, i, sepOptional)
         IN  IF m.ok THEN <<[n |-> m.n, c |-> m.c]>> \o FindAllFrom(s, m.end + 1, sepOptional)
             ELSE FindAllFrom(s, i + 1, sepOptional)

FindAll(s, sepOptional) == FindAllFrom(s, 1, sepOptional)

\* a loop that stores the letter as typed
RECURSIVE StorePairs_NoLower(_, _)
StorePairs_NoLower(ans, candidates) ==
    IF candidates = <<>> THEN ans
    ELSE StorePairs_NoLower(Put(ans, IntOfDigits(Head(candidates).n), Head(candidates).c),
                            Tail(candidates))

\* a loop that keeps the first letter stored for a number
RECURSIVE StorePairs_FirstWins(_, _)
StorePairs_FirstWins(ans, candidates) ==
    IF candidates = <<>> THEN ans
    ELSE StorePairs_FirstWins(
             IF IntOfDigits(Head(candidates).n) \in DOMAIN ans THEN ans
             ELSE Put(ans, IntOfDigits(Head(candidates).n), Str(Lower(<<Head(candidates).c>>))),
             Tail(candidates))

\* for n, c in candidates: ans[int(n)] = c.lower()
RECURSIVE StorePairs(_, _)
StorePairs(ans, candidates) ==
    IF candidates = <<>> THEN ans
    ELSE StorePairs(Put(ans, IntOfDigits(Head(candidates).n),
                        Str(Lower(<<Head(candidates).c>>))),
                    Tail(candidates))

parse_answer_key(raw) ==
    IF raw = <<>> THEN EmptyDict
    ELSE StorePairs(EmptyDict, FindAll(raw, TRUE))

-----------------------------------------------------------------------------
(* json.loads on the text of a JSON object without inner braces.  Texts    *)
(* are over an alphabet without "[", ".", "\", "_", "+" and without the   *)
(* letters of true, false, null, NaN, Infinity and of an exponent, so a    *)
(* value is a string or an integer.                                        *)

JsonSpace == {" ", "\t", "\n", "\r"}

ControlChars == {"\t", "\n", "\r", "\f"}

RECURSIVE SkipJsonSpace(_, _)
SkipJsonSpace(s, j) ==
    IF j <= Len(s) /\ s[j] \in JsonSpace THEN SkipJsonSpace(s, j + 1) ELSE j

Failed == [ok |-> FALSE]

\* a string whose opening quote is at i: its characters and the position
\* after its closing quote
ScanString(s, i) ==
    LET closing == {j \in (i + 1)..Len(s) : s[j] = "\""}
    IN  IF closing = {} THEN Failed
        ELSE LET j == CHOOSE x \in closing : \A y \in closing : x <= y
             IN  IF \E w \in (i + 1)..(j - 1) : s[w] \in ControlChars THEN Failed
                 ELSE [ok |-> TRUE, val |-> [str |-> TRUE, s |-> SubSeq(s, i + 1, j - 1)],
                       end |-> j + 1]

RECURSIVE DigitsEnd(_, _)
DigitsEnd(s, j) == IF j <= Len(s) /\ IsDigit(s[j]) THEN DigitsEnd(s, j + 1) ELSE j

\* -?(0|[1-9][0-9]*) at i
ScanNumber(s, i) ==
    LET neg == s[i] = "-"
        d == IF neg THEN i + 1 ELSE i
    IN  IF d > Len(s) \/ ~IsDigit(s[d]) THEN Failed
        ELSE LET e == IF s[d] = "0" THEN d + 1 ELSE DigitsEnd(s, d)
                 v == IntOfDigits(SubSeq(s, d, e - 1))
             IN  [ok |-> TRUE, val |-> [str |-> FALSE, v |-> IF neg THEN 0 - v ELSE v],
                  end |-> e]

ScanValue(s, i) ==
    IF i > Len(s) THEN Failed
    ELSE IF s[i] = "\"" THEN ScanString(s, i)
    ELSE IF s[i] = "-" \/ IsDigit(s[i]) THEN ScanNumber(s, i)
    ELSE Failed

\* the members of an object from the key at i on, appended to acc
RECURSIVE ScanMembers(_, _, _)
ScanMembers(s, i, acc) ==
    IF i > Len(s) \/ s[i] # "\"" THEN Failed
    ELSE LET k == ScanString(s, i)
         IN  IF ~k.ok THEN Failed
             ELSE LET colon == SkipJsonSpace(s, k.end)
                  IN  IF colon > Len(s) \/ s[colon] # ":" THEN Failed
                      ELSE LET v == ScanValue(s, SkipJsonSpace(s, colon + 1))
                           IN  IF ~v.ok THEN Failed
                               ELSE LET next == SkipJsonSpace(s, v.end)
                                        all == Append(acc, [k |-> k.val.s, v |-> v.val])
                                    IN  IF next > Len(s) THEN Failed
                                        ELSE IF s[next] = "}"
                                        THEN [ok |-> TRUE, pairs |-> all, end |-> next + 1]
                                        ELSE IF s[next] = ","
                                        THEN ScanMembers(s, SkipJsonSpace(s, next + 1), all)
                                        ELSE Failed

\* a Python dict built pair by pair: a key met again keeps its place and
\* takes the new value
RECURSIVE DictOfPairs(_, _)
DictOfPairs(acc, pairs) ==
    IF pairs = <<>> THEN acc
    ELSE LET h == Head(pairs)
             at == {i \in 1..Len(acc) : acc[i].k = h.k}
         IN  DictOfPairs(IF at = {} THEN Append(acc, h)
                         ELSE [i \in 1..Len(acc) |-> IF i \in at THEN h ELSE acc[i]],
                         Tail(pairs))

\* json.loads(s) for s = "{" ... "}": the items of the dict in their order,
\* or a failure (the exception)
json_loads(s) ==
    LET first == SkipJsonSpace(s, 2)
        members == IF s[first] = "}"
                   THEN [ok |-> TRUE, pairs |-> <<>>, end |-> first + 1]
                   ELSE ScanMembers(s, first, <<>>)
    IN  IF members.ok /\ SkipJsonSpace(s, members.end) = Len(s) + 1
        THEN [ok |-> TRUE, items |-> DictOfPairs(<<>>, members.pairs)]
        ELSE Failed

\* str.strip()
RECURSIVE Strip(_)
Strip(s) ==
    IF s = <<>> THEN s
    ELSE IF IsSpace(Head(s)) THEN Strip(Tail(s))
    ELSE IF IsSpace(s[Len(s)]) THEN Strip(SubSeq(s, 1, Len(s) - 1))
    ELSE s

\* int(k) of a str: whitespace around, an optional sign, decimal digits;
\* anything else raises ValueError
int_of_str(k) ==
    LET t == Strip(k)
        neg == t # <<>> /\ t[1] = "-"
        ds == IF neg THEN Tail(t) ELSE t
    IN  IF ds # <<>> /\ \A i \in 1..Len(ds) : IsDigit(ds[i])
        THEN [ok |-> TRUE, v |-> IF neg THEN 0 - IntOfDigits(ds) ELSE IntOfDigits(ds)]
        ELSE Failed

\* str(n) of an int
RECURSIVE DigitsOfNat(_)
DigitsOfNat(n) ==
    IF n < 10 THEN <<DigitChars[n + 1]>>
    ELSE Append(DigitsOfNat(n \div 10), DigitChars[(n % 10) + 1])

str_of(v) ==
    IF v.str THEN v.s
    ELSE IF v.v < 0 THEN <<"-">> \o DigitsOfNat(0 - v.v) ELSE DigitsOfNat(v.v)

-----------------------------------------------------------------------------
(* parse_gemini_json_response *)

\* re.search(r'\{[^{}]*\}', s): the leftmost "{" whose next brace is a "}"
SearchObject(s) ==
    LET opens == {i \in 1..Len(s) :
                    /\ s[i] = "{"
                    /\ \E j \in (i + 1)..Len(s) :
                          /\ s[j] = "}"
                          /\ \A w \in (i + 1)..(j - 1) : s[w] \notin {"{", "}"}}
    IN  IF opens = {} THEN NoMatch
        ELSE LET i == CHOOSE x \in opens : \A y \in opens : x <= y
                 j == CHOOSE x \in (i + 1)..Len(s) :
                         s[x] = "}" /\ \A w \in (i + 1)..(x - 1) : s[w] # "}"
             IN  [ok |-> TRUE, group |-> SubSeq(s, i, j)]

\* for k, v in data.items(): parsed[int(k)] = str(v).lower().strip(), a key
\* that int() refuses being skipped
RECURSIVE StoreItems(_, _)
StoreItems(parsed, items) ==
    IF items = <<>> THEN parsed
    ELSE LET k == int_of_str(Head(items).k)
         IN  StoreItems(IF k.ok
                        THEN Put(parsed, k.v, Str(Strip(Lower(str_of(Head(items).v)))))
                        ELSE parsed,
                        Tail(items))

parse_gemini_json_response(gemini_text) ==
    IF gemini_text = <<>> THEN EmptyDict
    ELSE LET m == SearchObject(gemini_text)
             data == IF m.ok THEN json_loads(m.group) ELSE Failed
         IN  IF data.ok THEN StoreItems(EmptyDict, data.items)
             ELSE StorePairs(EmptyDict, FindAll(gemini_text, FALSE))

-----------------------------------------------------------------------------
(* The local mark heuristic: per line,                                     *)
(* re.search(r'(\d{1,4})\D{0,4}([a-eA-EvVfF])\D{0,6}[xX]', line)           *)

\* the quantifiers {0,4} and {0,6}
MaxGapBefore == 4
MaxGapAfter == 6

NoDigits(s, from, to) == \A w \in from..to : ~IsDigit(s[w])

\* the expression tried at i with k digits and m characters before the
\* letter: some number of characters after the letter leads to an x
MarkFits(s, i, k, m) ==
    LET p == i + k + m
    IN  /\ p <= Len(s)
        /\ \A d \in i..(i + k - 1) : IsDigit(s[d])
        /\ NoDigits(s, i + k, p - 1)
        /\ s[p] \in AnswerLetters
        /\ \E n \in 0..MaxGapAfter :
              /\ p + n + 1 <= Len(s)
              /\ NoDigits(s, p + 1, p + n)
              /\ s[p + n + 1] \in {"x", "X"}

\* greedy with backtracking: the most digits, then the longest gap
MarkMatchAt(s, i) ==
    LET ks == {k \in 1..MaxDigits : \E m \in 0..MaxGapBefore : MarkFits(s, i, k, m)}
    IN  IF ks = {} THEN NoMatch
        ELSE LET k == CHOOSE x \in ks : \A y \in ks : y <= x
                 ms == {m \in 0..MaxGapBefore : MarkFits(s, i, k, m)}
                 m == CHOOSE x \in ms : \A y \in ms : y <= x
             IN  [ok |-> TRUE, n |-> SubSeq(s, i, i + k - 1), c |-> s[i + k + m]]

\* re.search: the match at the leftmost position that has one
MarkSearch(line) ==
    LET at == {i \in 1..Len(line) : MarkMatchAt(line, i).ok}
    IN  IF at = {} THEN NoMatch
        ELSE MarkMatchAt(line, CHOOSE x \in at : \A y \in at : x <= y)

\* str.splitlines() of a text whose only line break is "\n"
RECURSIVE SplitLines(_, _)
SplitLines(s, line) ==
    IF s = <<>> THEN IF line = <<>> THEN <<>> ELSE <<line>>
    ELSE IF Head(s) = "\n" THEN <<line>> \o SplitLines(Tail(s), <<>>)
    ELSE SplitLines(Tail(s), Append(line, Head(s)))

RECURSIVE MarkLines(_, _)
MarkLines(local_answers, lines) ==
    IF lines = <<>> THEN local_answers
    ELSE LET m == MarkSearch(Head(lines))
         IN  MarkLines(IF m.ok
                       THEN Put(local_answers, IntOfDigits(m.n), Str(Lower(<<m.c>>)))
                       ELSE local_answers,
                       Tail(lines))

local_heuristic(txt) == MarkLines(EmptyDict, SplitLines(txt, <<>>))

\* lines 305-315: the reply's mapping, or the heuristic's when that is empty
extract_answers(reply, txt) ==
    LET parsed == parse_gemini_json_response(reply)
    IN  IF parsed # EmptyDict THEN parsed ELSE local_heuristic(txt)

-----------------------------------------------------------------------------
(* Inputs of the answer-key field *)

MaxLen == 4
MaxTokens == 3

KeyAlphabet == {"0", "1", ":", "-", ")", ",", " ", "a", "E"}

RECURSIVE TextsUpTo(_, _)
TextsUpTo(alphabet, n) ==
    IF n = 0 THEN {<<>>}
    ELSE LET shorter == TextsUpTo(alphabet, n - 1)
         IN  shorter \cup {Append(t, c) : t \in {u \in shorter : Len(u) = n - 1}, c \in alphabet}

FreeKeyTexts == TextsUpTo(KeyAlphabet, MaxLen)

\* a token as typed: a number, a separator with the whitespace around it, a letter
Token(n, sep, c) == [n |-> n, sep |-> sep, c |-> c]

TokenText(t) == t.n \o t.sep \o <<t.c>>

RECURSIVE Join(_, _)
Join(toks, delim) ==
    IF toks = <<>> THEN <<>>
    ELSE IF Len(toks) = 1 THEN TokenText(toks[1])
    ELSE TokenText(toks[1]) \o delim \o Join(Tail(toks), delim)

SingleNumbers == {<<"1">>, <<"0">>, <<"0", "7">>, <<"0", "0", "0">>, <<"9", "8", "7", "6">>,
                  <<"1", "2", "3", "4", "5">>}

SingleSeparators == {<<":">>, <<"-">>, <<")">>, <<>>, <<" ", ":", " ">>, <<" ", "-">>,
                     <<")", " ">>, <<" ">>, <<":", ":">>, <<".">>}

SingleLetters == {"a", "c", "E", "v", "F", "x", "G", "1"}

SingleTokens == {Token(n, sep, c) : n \in SingleNumbers, sep \in SingleSeparators,
                                    c \in SingleLetters}

ListNumbers == {<<"1">>, <<"0", "1">>, <<"2">>, <<"0", "0", "1", "2">>}

ListTokens == {Token(n, <<":">>, c) : n \in ListNumbers, c \in {"a", "B"}}

Delimiters == {<<",", " ">>, <<" ">>, <<",">>}

RECURSIVE TokenLists(_)
TokenLists(n) ==
    IF n = 0 THEN {<<>>}
    ELSE LET shorter == TokenLists(n - 1)
         IN  shorter \cup {Append(l, t) : l \in {u \in shorter : Len(u) = n - 1}, t \in ListTokens}

\* the examples of the documentation
Example5 == <<"1", ":", "a", ",", " ", "2", ":", "d", ",", " ", "3", ":", "e", ",", " ",
              "4", ":", "v", ",", " ", "5", ":", "f">>

ExampleNoDigits == <<"n", "o", " ", "d", "i", "g", "i", "t", "s", " ", "h", "e", "r", "e">>

ExampleUpper == <<"1", ":", "A">>

ExampleTwice == <<"1", ":", "a", ",", " ", "1", ":", "b">>

ExampleTexts == {Example5, ExampleNoDigits, ExampleUpper, ExampleTwice}

-----------------------------------------------------------------------------
(* The answer-key field alone *)

NoGrade == [nota |-> 0, correctas |-> 0, incorrectas |-> 0]

NotPublished == [published |-> FALSE, resultados |-> <<>>]

InitRest ==
    /\ text = <<>>
    /\ gemini_out = <<>>
    /\ student_answers = EmptyDict
    /\ total_q = 0
    /\ grade = NoGrade
    /\ n_files = 0
    /\ uploaded = <<>>
    /\ idx = 0
    /\ resultados = <<>>
    /\ session = NotPublished

InitKey ==
    /\ pc = "input"
    /\ clave = EmptyDict
    /\ \/ /\ clave_raw \in FreeKeyTexts \cup ExampleTexts
          /\ tokens = <<>>
       \/ \E t \in SingleTokens :
            /\ tokens = <<t>>
            /\ clave_raw = TokenText(t)
       \/ \E l \in TokenLists(MaxTokens) \ {<<>>}, delim \in Delimiters :
            /\ tokens = l
            /\ clave_raw = Join(l, delim)
    /\ InitRest

\* clave = parse_answer_key(clave_raw) if clave_raw else {}
ParseKey ==
    /\ pc = "input"
    /\ clave' = IF clave_raw # <<>> THEN parse_answer_key(clave_raw) ELSE EmptyDict
    /\ pc' = "parsed"
    /\ UNCHANGED <<clave_raw, tokens, text, gemini_out, student_answers, total_q, grade,
                   n_files, uploaded, idx, resultados, session>>

NextKey == ParseKey

SpecKey == InitKey /\ [][NextKey]_vars

-----------------------------------------------------------------------------
(* What the documentation says of the answer-key parser *)

\* the seven symbols of an AnswerMapping
Symbols == {"a", "b", "c", "d", "e", "v", "f"}

\* the value of a decimal numeral, leading zeros ignored
RECURSIVE Decimal(_, _)
Decimal(acc, ds) ==
    IF ds = <<>> THEN acc ELSE Decimal(10 * acc + DigitVal(Head(ds)), Tail(ds))

Merge(d1, d2) ==
    [k \in (DOMAIN d1) \cup (DOMAIN d2) |-> IF k \in DOMAIN d2 THEN d2[k] ELSE d1[k]]

AllSpace(s, from, to) == \A w \in from..to : IsSpace(s[w])

\* optional whitespace, one of the characters seps, optional whitespace
SeparatorOf(sep, seps) ==
    \E q \in 1..Len(sep) :
        /\ sep[q] \in seps
        /\ AllSpace(sep, 1, q - 1)
        /\ AllSpace(sep, q + 1, Len(sep))

\* s[i..e] is a number of 1 to 4 digits (a whole run of digits, or the last
\* four digits of a longer run), followed through optional whitespace, an
\* optional colon or hyphen and optional whitespace by an answer letter at p
TokenAt(s, i, e, p) ==
    /\ 1 <= i /\ i <= e /\ e < p /\ p <= Len(s)
    /\ s[p] \in AnswerLetters
    /\ e - i + 1 <= 4
    /\ \A d \in i..e : IsDigit(s[d])
    /\ i = 1 \/ ~IsDigit(s[i - 1]) \/ e - i + 1 = 4
    /\ \/ AllSpace(s, e + 1, p - 1)
       \/ SeparatorOf(SubSeq(s, e + 1, p - 1), {":", "-"})

TokensOf(s) ==
    UNION {UNION {{<<i, e, p>> : p \in {q \in (e + 1)..Len(s) : TokenAt(s, i, e, q)}} :
                  e \in {x \in i..(i + 3) : x <= Len(s)}} :
           i \in {j \in 1..Len(s) : IsDigit(s[j])}}

TokenNumber(s, t) == Decimal(0, SubSeq(s, t[1], t[2]))

LastDigits(n) == IF Len(n) <= 4 THEN n ELSE SubSeq(n, Len(n) - 3, Len(n))

\* C2 as stated: a number of 1 to 4 digits, a separator that is a colon, a
\* hyphen or a closing parenthesis with optional whitespace around it, and
\* one answer letter parse to the mapping {number: lowercase letter}; a
\* number followed by anything else gives no entry.
C2_AsStated ==
    (pc = "parsed" /\ Len(tokens) = 1 /\ Len(tokens[1].n) <= 4) =>
        IF SeparatorOf(tokens[1].sep, {":", "-", ")"}) /\ tokens[1].c \in AnswerLetters
        THEN clave = (Decimal(0, tokens[1].n) :> Str(<<LowerChar(tokens[1].c)>>))
        ELSE clave = EmptyDict

\* C2 amended: the separator is whitespace with at most one colon or hyphen
\* in it (none at all is accepted, a closing parenthesis is not); "n:l",
\* "n-l" and "nl" parse to {n: lowercase(l)}, of a number of more than four
\* digits the last four count, anything else gives no entry; and in every
\* text the question numbers of the result are exactly the numbers of the
\* tokens of that shape.
C2_Recognition ==
    pc = "parsed" =>
        /\ Len(tokens) = 1 =>
              IF /\ \/ AllSpace(tokens[1].sep, 1, Len(tokens[1].sep))
                    \/ SeparatorOf(tokens[1].sep, {":", "-"})
                 /\ tokens[1].c \in AnswerLetters
              THEN clave = (Decimal(0, LastDigits(tokens[1].n)) :> Str(<<LowerChar(tokens[1].c)>>))
              ELSE clave = EmptyDict
        /\ DOMAIN clave = {TokenNumber(clave_raw, t) : t \in TokensOf(clave_raw)}

C2_Witness ==
    /\ pc = "parsed"
    /\ Len(tokens) = 1
    /\ tokens[1].sep = <<")">>
    /\ tokens[1].c \in AnswerLetters
    /\ clave = EmptyDict

DistinctNumbers(toks) ==
    \A i, j \in 1..Len(toks) :
        Decimal(0, toks[i].n) = Decimal(0, toks[j].n) => i = j

\* C3: a text made only of well-formed "number:letter" tokens with distinct
\* question numbers, separated by commas and spaces, parses to exactly the
\* mapping from each token's number to its letter lowercased.
C3_WellFormed ==
    /\ (pc = "parsed" /\ Len(tokens) >= 1 /\ DistinctNumbers(tokens)
          /\ \A i \in 1..Len(tokens) :
                /\ tokens[i].sep = <<":">>
                /\ Len(tokens[i].n) <= 4
                /\ tokens[i].c \in AnswerLetters)
       => /\ DOMAIN clave = {Decimal(0, tokens[i].n) : i \in 1..Len(tokens)}
          /\ \A i \in 1..Len(tokens) :
                clave[Decimal(0, tokens[i].n)] = Str(<<LowerChar(tokens[i].c)>>)
    /\ (pc = "parsed" /\ clave_raw = Example5)
       => clave = (1 :> "a" @@ 2 :> "d" @@ 3 :> "e" @@ 4 :> "v" @@ 5 :> "f")
    /\ (pc = "parsed" /\ clave_raw = ExampleUpper) => clave = (1 :> "a")

C3_Witness ==
    /\ pc = "parsed"
    /\ Len(tokens) = 3
    /\ DistinctNumbers(tokens)
    /\ tokens[1].n = <<"0", "0", "1", "2">>
    /\ tokens[2].c = "B"
    /\ Cardinality(DOMAIN clave) = 3

\* C4: when a question number occurs in several tokens, the mapping holds
\* for it the letter of the occurrence that is latest in scan order.
C4_LastMatchWins ==
    pc = "parsed" =>
        LET found == TokensOf(clave_raw)
        IN  /\ \A t \in found :
                  (\A u \in found :
                        TokenNumber(clave_raw, u) = TokenNumber(clave_raw, t) => u[1] <= t[1])
                  => /\ TokenNumber(clave_raw, t) \in DOMAIN clave
                     /\ clave[TokenNumber(clave_raw, t)] = Str(<<LowerChar(clave_raw[t[3]])>>)
            /\ \A i \in 1..Len(tokens) :
                  (/\ Len(tokens) > 1
                   /\ \A j \in (i + 1)..Len(tokens) :
                         Decimal(0, tokens[j].n) # Decimal(0, tokens[i].n))
                  => clave[Decimal(0, tokens[i].n)] = Str(<<LowerChar(tokens[i].c)>>)
            /\ clave_raw = ExampleTwice => clave = (1 :> "b")

C4_Witness ==
    /\ pc = "parsed"
    /\ Len(tokens) = 3
    /\ tokens[1].n = <<"1">> /\ tokens[1].c = "a"
    /\ tokens[2].n = <<"0", "1">> /\ tokens[2].c = "B"
    /\ tokens[3].n = <<"1">> /\ tokens[3].c = "a"
    /\ clave = (1 :> "a")

CommaAt(s) == {i \in 1..Len(s) : s[i] = ","}

\* C8: the parser returns a mapping for every text; a text that is empty or
\* holds no token gives the empty mapping; and the fragments between commas
\* are parsed independently, so a fragment that holds no token adds nothing
\* and leaves the entries of the fragments around it as they are.
C8_Total ==
    pc = "parsed" =>
          /\ \A k \in DOMAIN clave : k \in Nat /\ clave[k] \in STRING
          /\ (clave_raw = <<>> \/ TokensOf(clave_raw) = {}) => clave = EmptyDict
          /\ clave_raw = ExampleNoDigits => clave = EmptyDict
          /\ \A i \in CommaAt(clave_raw) :
                LET before == parse_answer_key(SubSeq(clave_raw, 1, i - 1))
                    after == parse_answer_key(SubSeq(clave_raw, i + 1, Len(clave_raw)))
                IN  /\ clave = Merge(before, after)
                    /\ TokensOf(SubSeq(clave_raw, 1, i - 1)) = {} => clave = after
                    /\ TokensOf(SubSeq(clave_raw, i + 1, Len(clave_raw))) = {} => clave = before

C8_Witness ==
    /\ pc = "parsed"
    /\ clave_raw = <<":", ",", "1", "a">>
    /\ clave = (1 :> "a")

\* C9 as stated: every key of a mapping the parsers return is at least 1.
C9_PositiveKeys ==
    pc = "parsed" => \A k \in (DOMAIN clave) \cup (DOMAIN student_answers) : k >= 1

-----------------------------------------------------------------------------
(* One document's answers: lines 305-315 on a reply and an extracted text *)

MaxReplyLen == 4
MaxPairs == 2
MaxMarkLen == 4

ReplyAlphabet == {"{", "}", "\"", ":", ",", "1", "-", "a", " "}

FreeReplies == TextsUpTo(ReplyAlphabet, MaxReplyLen)

Quoted(s) == <<"\"">> \o s \o <<"\"">>

JsonKeys == {Quoted(<<"1">>), Quoted(<<"0", "1">>), Quoted(<<"0">>), Quoted(<<"-", "1">>),
             Quoted(<<"x">>)}

JsonValues == {Quoted(<<"a">>), Quoted(<<"B", " ">>), Quoted(<<"x">>), <<"7">>, <<"a">>}

MoreJsonKeys == JsonKeys \cup {Quoted(<<" ", "2", " ">>), Quoted(<<>>), <<"1">>,
                               Quoted(<<"1", "a">>), Quoted(<<"-", " ", "1">>)}

MoreJsonValues == JsonValues \cup {Quoted(<<>>), Quoted(<<"a", "b">>), <<"-", "1">>,
                                   <<"0", "1">>, <<"-", "0">>, <<"-">>, Quoted(<<" ", "C">>)}

Members == {k \o <<":">> \o v : k \in JsonKeys, v \in JsonValues}

\* the texts of at most n members joined by commas
RECURSIVE MemberLists(_)
MemberLists(n) ==
    IF n = 0 THEN {<<>>}
    ELSE LET shorter == MemberLists(n - 1)
         IN  shorter \cup {IF l = <<>> THEN m ELSE l \o <<",">> \o m :
                              l \in shorter, m \in Members}

Braced(body) == <<"{">> \o body \o <<"}">>

ListReplies ==
    {pre \o Braced(l) \o post :
        pre \in {<<>>, <<"2", ":", "b", " ">>},
        l \in MemberLists(MaxPairs),
        post \in {<<>>, <<" ", "3", "-", "c">>}}

SingleReplies ==
    {Braced(pad \o k \o colon \o v \o pad) :
        pad \in {<<>>, <<" ">>}, k \in MoreJsonKeys,
        colon \in {<<":">>, <<" ", ":", " ">>, <<>>}, v \in MoreJsonValues}

Replies == FreeReplies \cup ListReplies \cup SingleReplies

MarkAlphabet == {"1", "0", " ", "a", "E", "x", "\n"}

ExampleMarks == {<<"1", ".", " ", "a", ")", " ", "X", "\n", "2", " ", "b", "\n", "3", " ", "c", " ", "x">>,
                 <<"1", "2", "3", "4", "5", " ", "a", " ", "x">>,
                 <<"1", " ", "a", "b", "c", "d", " ", " ", " ", "x">>,
                 <<"7", " ", "-", "-", "-", "-", "-", "a", "x">>,
                 <<"7", " ", "a", " ", "-", "-", "-", "-", "-", "-", "x">>,
                 <<"7", " ", "a", " ", "-", "-", "-", "-", "-", "x">>,
                 <<"7", " ", "a", " ", "2", " ", "x">>}

MarkTexts == TextsUpTo(MarkAlphabet, MaxMarkLen) \cup ExampleMarks

InitGemini ==
    /\ pc = "reply"
    /\ \/ /\ gemini_out \in Replies
          /\ text = <<>>
       \/ /\ gemini_out \in {<<>>, <<"{", "}">>}
          /\ text \in MarkTexts
    /\ student_answers = EmptyDict
    /\ clave_raw = <<>>
    /\ tokens = <<>>
    /\ clave = EmptyDict
    /\ total_q = 0
    /\ grade = NoGrade
    /\ n_files = 0
    /\ uploaded = <<>>
    /\ idx = 0
    /\ resultados = <<>>
    /\ session = NotPublished

ExtractAnswers ==
    /\ pc = "reply"
    /\ student_answers' = extract_answers(gemini_out, text)
    /\ pc' = "extracted"
    /\ UNCHANGED <<clave_raw, tokens, clave, text, gemini_out, total_q, grade,
                   n_files, uploaded, idx, resultados, session>>

NextGemini == ExtractAnswers

SpecGemini == InitGemini /\ [][NextGemini]_vars

\* C1 as stated: every value of every mapping the program produces is one
\* of the seven lowercase symbols a, b, c, d, e, v, f.
C1_SymbolsOnly ==
    /\ \A k \in DOMAIN clave : clave[k] \in Symbols
    /\ \A k \in DOMAIN student_answers : student_answers[k] \in Symbols

-----------------------------------------------------------------------------
(* grade_answers *)

\* a loop over the key's entries instead of range(1, total_q + 1)
RECURSIVE CountCorrect_OverKey(_, _, _, _)
CountCorrect_OverKey(student, key, q, total) ==
    Cardinality({k \in DOMAIN key : k \in DOMAIN student /\ student[k] = key[k]})

\* for q in range(1, total_q + 1): the number of q, from q on, that are in
\* both mappings with equal letters
RECURSIVE CountCorrect(_, _, _, _)
CountCorrect(student, key, q, total) ==
    IF q > total THEN 0
    ELSE (IF q \in DOMAIN student /\ q \in DOMAIN key /\ student[q] = key[q] THEN 1 ELSE 0)
         + CountCorrect(student, key, q + 1, total)

\* a score cut to two decimals instead of rounded
round2_Truncate(correct, total) == (2000 * correct) \div total

\* round((correct / total_q) * 20, 2) in hundredths, for total_q > 0: the
\* integer nearest to 2000 * correct / total_q, a tie going to the even one
\* (the float product is exact at the ties the model draws, and elsewhere
\* its error is far smaller than the distance to a tie)
round2(correct, total) ==
    LET num == 2000 * correct
        low == num \div total
        rest == num % total
    IN  IF 2 * rest < total THEN low
        ELSE IF 2 * rest > total THEN low + 1
        ELSE IF low % 2 = 0 THEN low ELSE low + 1

\* a guard that catches zero only
grade_answers_ZeroOnly(student, key, total) ==
    IF total = 0 THEN [nota |-> 0, correctas |-> 0, incorrectas |-> 0]
    ELSE LET correct == CountCorrect(student, key, 1, total)
         IN  [nota |-> IF total < 0 THEN 0 ELSE round2(correct, total),
              correctas |-> correct,
              incorrectas |-> total - correct]

grade_answers(student, key, total) ==
    IF total <= 0 THEN [nota |-> 0, correctas |-> 0, incorrectas |-> 0]
    ELSE LET correct == CountCorrect(student, key, 1, total)
         IN  [nota |-> round2(correct, total),
              correctas |-> correct,
              incorrectas |-> total - correct]

MaxQ == 3
TieTotal == 32

Mappings == UNION {[d -> {"a", "b"}] : d \in SUBSET (1..MaxQ)}

Totals == ((0 - 1)..(MaxQ + 1)) \cup {TieTotal}

InitGrade ==
    /\ pc = "grading"
    /\ student_answers \in Mappings
    /\ clave \in Mappings
    /\ total_q \in Totals
    /\ grade = NoGrade
    /\ clave_raw = <<>>
    /\ tokens = <<>>
    /\ text = <<>>
    /\ gemini_out = <<>>
    /\ n_files = 0
    /\ uploaded = <<>>
    /\ idx = 0
    /\ resultados = <<>>
    /\ session = NotPublished

Grade ==
    /\ pc = "grading"
    /\ grade' = grade_answers(student_answers, clave, total_q)
    /\ pc' = "graded"
    /\ UNCHANGED <<clave_raw, tokens, clave, text, gemini_out, student_answers, total_q,
                   n_files, uploaded, idx, resultados, session>>

NextGrade == Grade

SpecGrade == InitGrade /\ [][NextGrade]_vars

Agree(student, key) == {q \in (DOMAIN student) \cap (DOMAIN key) : student[q] = key[q]}

\* C5: for totalQuestions > 0, correctCount is the number of q in
\* 1..totalQuestions present in both mappings with equal letters; key
\* entries outside the range are not counted, every other q of the range is
\* incorrect: incorrectCount = totalQuestions - correctCount.
C5_Counts ==
    (pc = "graded" /\ total_q > 0) =>
        /\ grade.correctas = Cardinality(Agree(student_answers, clave) \cap (1..total_q))
        /\ grade.incorrectas = total_q - grade.correctas
        /\ grade.incorrectas =
              Cardinality({q \in 1..total_q : q \notin Agree(student_answers, clave)})

C5_Witness ==
    /\ pc = "graded"
    /\ total_q = 2
    /\ 3 \in Agree(student_answers, clave)
    /\ 1 \in Agree(student_answers, clave)
    /\ 2 \in DOMAIN clave /\ 2 \notin DOMAIN student_answers
    /\ grade.correctas = 1 /\ grade.incorrectas = 1

Abs(x) == IF x < 0 THEN 0 - x ELSE x

\* C6: for totalQuestions > 0 the score, in hundredths, is the integer
\* nearest to 2000 * correctCount / totalQuestions; it lies between 0.00
\* and 20.00, is 0.00 for no correct answer and 20.00 when all are correct,
\* and never decreases when correctCount grows for the same totalQuestions.
C6_Score ==
    (pc = "graded" /\ total_q > 0) =>
        /\ 2 * Abs(grade.nota * total_q - 2000 * grade.correctas) <= total_q
        /\ 0 <= grade.nota /\ grade.nota <= 2000
        /\ grade.correctas = 0 => grade.nota = 0
        /\ grade.correctas = total_q => grade.nota = 2000
        /\ \A c \in 0..total_q :
              /\ c >= grade.correctas => round2(c, total_q) >= grade.nota
              /\ c <= grade.correctas => round2(c, total_q) <= grade.nota
        /\ (total_q = 2 /\ grade.correctas = 1) => grade.nota = 1000

C6_Witness ==
    /\ pc = "graded"
    /\ total_q = 3
    /\ grade.correctas = 2
    /\ grade.nota = 1333

\* C7: with totalQuestions <= 0 the result is score 0.0, correctCount 0 and
\* incorrectCount 0, whatever the mappings, and never a negative count.
C7_Degenerate ==
    /\ pc = "graded" => grade.incorrectas >= 0 /\ grade.correctas >= 0 /\ grade.nota >= 0
    /\ (pc = "graded" /\ total_q <= 0) =>
          grade = [nota |-> 0, correctas |-> 0, incorrectas |-> 0]

C7_Witness ==
    /\ pc = "graded"
    /\ total_q < 0
    /\ Agree(student_answers, clave) # {}
    /\ grade.nota = 0 /\ grade.correctas = 0 /\ grade.incorrectas = 0

-----------------------------------------------------------------------------
(* One analysis run: the script from the button on (lines 251-254, 277-333) *)

\* uploaded[:30]
MaxFiles == 30

\* a script that keeps every uploaded file
cap_uploads_None(files) == files

\* if uploaded and len(uploaded) > 30: uploaded = uploaded[:30]
cap_uploads(files) ==
    IF files # <<>> /\ Len(files) > MaxFiles THEN SubSeq(files, 1, MaxFiles) ELSE files

\* call_gemini_rest: the reply's text stripped, or "" when the call raises
call_gemini_rest(response) == IF response.ok THEN Strip(response.text) ELSE <<>>

\* total_q = total_questions if total_questions else len(clave)
effective_total(total_questions, key) ==
    IF total_questions # 0 THEN total_questions ELSE Cardinality(DOMAIN key)

MaxSmall == 2
MaxOver == 1
MaxVaried == 1

\* the numbers of uploaded documents: a few, and around the cap
UploadCounts == (1..MaxSmall) \cup ((MaxFiles - 1)..(MaxFiles + MaxOver))

RunKey == <<"1", ":", "a", ",", " ", "2", ":", "b">>

UsualText == <<"1", " ", "a", " ", "x", "\n", "2", " ", "b", " ", "x">>

OtherText == <<"1", " ", "a", " ", "x", "\n", "2", " ", "E", " ", "X">>

UsualReply == <<"{", "\"", "1", "\"", ":", "\"", "a", "\"", ",", "\"", "2", "\"", ":",
                "\"", "b", "\"", "}", "\n">>

\* what the extraction and the hosted model return for a document: the
\* usual case; a failed call and marks the heuristic reads; an empty object
\* and no text at all; a reply that is no JSON
UsualOutcome == [text |-> UsualText, response |-> [ok |-> TRUE, text |-> UsualReply]]

Outcomes ==
    {UsualOutcome,
     [text |-> OtherText, response |-> [ok |-> FALSE, text |-> <<>>]],
     [text |-> <<>>, response |-> [ok |-> TRUE, text |-> <<" ", "{", "}", "\n">>]],
     [text |-> UsualText, response |-> [ok |-> TRUE, text |-> <<"n", "o", " ", "1", "-", "c">>]]}

UsualAnswers == (1 :> "a" @@ 2 :> "b")

\* how many results so far hold other answers than the usual ones
Varied(results) == Cardinality({i \in 1..Len(results) : results[i].respuestas # UsualAnswers})

RECURSIVE Names(_)
Names(n) == IF n = 0 THEN <<>> ELSE Append(Names(n - 1), n)

InitRun ==
    /\ pc = "loop"
    /\ clave_raw = RunKey
    /\ tokens = <<>>
    /\ clave = parse_answer_key(clave_raw)
    /\ total_q \in {Cardinality(DOMAIN clave), Cardinality(DOMAIN clave) + 1}
    /\ n_files \in UploadCounts
    /\ uploaded = cap_uploads(Names(n_files))
    /\ text = <<>>
    /\ gemini_out = <<>>
    /\ student_answers = EmptyDict
    /\ grade = NoGrade
    /\ idx = 0
    /\ resultados = <<>>
    /\ session = NotPublished

\* the body of the loop for the next document (lines 283-327)
ProcessDocument ==
    /\ pc = "loop"
    /\ idx < Len(uploaded)
    /\ \E o \in Outcomes :
          /\ text' = o.text
          /\ gemini_out' = call_gemini_rest(o.response)
          /\ student_answers' = extract_answers(gemini_out', text')
          /\ grade' = grade_answers(student_answers', clave, effective_total(total_q, clave))
          /\ resultados' = Append(resultados,
                                  [nombre_pdf |-> uploaded[idx + 1],
                                   nota |-> grade'.nota,
                                   correctas |-> grade'.correctas,
                                   incorrectas |-> grade'.incorrectas,
                                   respuestas |-> student_answers'])
    /\ Varied(resultados') <= MaxVaried
    /\ idx' = idx + 1
    /\ UNCHANGED <<pc, clave_raw, tokens, clave, total_q, n_files, uploaded, session>>

\* an exception out of the loop body (line 67's st.debug, reached when
\* pdfplumber fails) ends the script run
RunRaises ==
    /\ pc = "loop"
    /\ idx < Len(uploaded)
    /\ pc' = "crashed"
    /\ UNCHANGED <<clave_raw, tokens, clave, text, gemini_out, student_answers, total_q,
                   grade, n_files, uploaded, idx, resultados, session>>

\* lines 329-333, after the loop
Publish ==
    /\ pc = "loop"
    /\ idx = Len(uploaded)
    /\ session' = [published |-> TRUE, resultados |-> resultados]
    /\ pc' = "done"
    /\ UNCHANGED <<clave_raw, tokens, clave, text, gemini_out, student_answers, total_q,
                   grade, n_files, uploaded, idx, resultados>>

NextRun == ProcessDocument \/ RunRaises \/ Publish

SpecRun == InitRun /\ [][NextRun]_vars

Min(a, b) == IF a <= b THEN a ELSE b

\* C10: a run over n documents appends one result per processed document,
\* in upload order, for the first min(n, 30) documents and none for the
\* rest, whatever extraction and the hosted model return; the session's
\* list is published only after the last document, and then has min(n, 30)
\* entries, all graded against the same key and totalQuestions.
C10_OneResultPerDocument ==
    /\ Len(uploaded) = Min(n_files, 30)
    /\ Len(resultados) = idx
    /\ idx <= Min(n_files, 30)
    /\ \A i \in 1..Len(resultados) :
          LET r == resultados[i]
          IN  /\ r.nombre_pdf = i
              /\ r.correctas = Cardinality(Agree(r.respuestas, clave) \cap (1..total_q))
              /\ r.correctas + r.incorrectas = total_q
              /\ 2 * Abs(r.nota * total_q - 2000 * r.correctas) <= total_q
    /\ session.published =>
          /\ pc = "done"
          /\ idx = Min(n_files, 30)
          /\ session.resultados = resultados
          /\ Len(session.resultados) = Min(n_files, 30)
    /\ pc = "done" => session.published

C10_Witness ==
    /\ pc = "done"
    /\ n_files = 31
    /\ Len(session.resultados) = 30
    /\ session.resultados[30].nombre_pdf = 30
    /\ \E i \in 1..30 : session.resultados[i].respuestas = (1 :> "a" @@ 2 :> "e")

====
